---- MODULE Spec2Model ----
(***************************************************************************)
(* Model of SolarCalculator (backend/solar_calculations.py) together with  *)
(* the configuration it reads (config/constants.py) and the payback range  *)
(* check of APIValidator.validate_calculation_results.                     *)
(*                                                                         *)
(* Number representation.  The program computes in IEEE doubles; the model *)
(* computes in fixed point, every quantity an integer count of a unit:     *)
(*   areas                 m^2                                             *)
(*   system_size_kw        W            (kW * 1000)                        *)
(*   irradiance            0.01 kWh/m^2 (per day, or per year)             *)
(*   factors, percentages  0.01                                            *)
(*   energies              0.01 kWh                                        *)
(*   capacity_factor       0.0001                                          *)
(*   money                 cents                                           *)
(*   payback_years         0.1 year                                        *)
(*   roi_percent           0.1 percent                                     *)
(* A product a*b/c is rounded down once per multiplication (MulDiv).       *)
(* A Python value of the wrong type is a record whose type is not "float". *)
(***************************************************************************)
EXTENDS Integers, Sequences, FiniteSets, TLC

(***************************************************************************)
(* Bounds of the explored inputs.                                          *)
(***************************************************************************)
MaxAreaSteps == 6
MaxRateSteps == 1
MaxSlope == 50
MaxUsableArea == 600
MaxKept == 2
MaxIrradianceSteps == 8
MaxCostSteps == 12

(***************************************************************************)
(* Arithmetic helpers.                                                     *)
(***************************************************************************)
Min(a, b) == IF a <= b THEN a ELSE b
Max(a, b) == IF a >= b THEN a ELSE b

\* Python int(a / b) for b > 0: the quotient truncated toward zero.
TruncDiv(a, b) == IF a >= 0 THEN a \div b ELSE -((-a) \div b)

\* floor(a * b / c) for c > 0 without forming the product a * b.
MulDiv(a, b, c) == (a \div c) * b + ((a % c) * b) \div c

\* floor(a * 1000 / c) for c > 0, in two steps to keep the products small.
Ratio1000(a, c) ==
    LET t == (a % c) * 10
    IN  (a \div c) * 1000 + (t \div c) * 100 + ((t % c) * 100) \div c

RECURSIVE SumSeq(_)
SumSeq(s) == IF s = <<>> THEN 0 ELSE Head(s) + SumSeq(Tail(s))

Float(n) == [type |-> "float", val |-> n]
NotANumber == [type |-> "str", val |-> 0]
IsFloat(x) == x.type = "float"

(***************************************************************************)
(* config/constants.py                                                     *)
(***************************************************************************)
PANEL_SPECS ==
    [monocrystalline |-> [power_watts |-> 400, efficiency |-> 20, area_m2 |-> 2],
     polycrystalline |-> [power_watts |-> 350, efficiency |-> 17, area_m2 |-> 2],
     thin_film       |-> [power_watts |-> 250, efficiency |-> 12, area_m2 |-> 2],
     bifacial        |-> [power_watts |-> 450, efficiency |-> 22, area_m2 |-> 2]]

SYSTEM_LOSSES ==
    [inverter_efficiency |-> 96, dc_losses |-> 98, ac_losses |-> 99,
     soiling_losses |-> 95]

FINANCIAL_PARAMS ==
    [federal_tax_credit |-> 30, electricity_rate_escalation |-> 3]

(***************************************************************************)
(* The arguments of calculate_potential.                                   *)
(***************************************************************************)
RoofKeys == {"usable_area", "orientation", "slope", "shading_factor"}

UsableAreas == {-3, 7, 10} \cup {90 * k : k \in 0..MaxAreaSteps}
Orientations == {"south", "NORTH"}
Slopes == {25, 26}
ShadingFactors == {15, 95}

WellFormedRoofs ==
    [usable_area : {Float(a) : a \in UsableAreas},
     orientation : {[type |-> "str", val |-> o] : o \in Orientations},
     slope : {Float(s) : s \in Slopes},
     shading_factor : {Float(s) : s \in ShadingFactors}]

ScenarioRoof(area) ==
    [usable_area |-> Float(area),
     orientation |-> [type |-> "str", val |-> "south"],
     slope |-> Float(25),
     shading_factor |-> Float(15)]

\* A record without one key: the dictionary a caller built incompletely.
Without(rec, key) == [k \in (DOMAIN rec) \ {key} |-> rec[k]]

MalformedRoofs ==
    {Without(ScenarioRoof(90), "usable_area"),
     Without(ScenarioRoof(90), "orientation"),
     [ScenarioRoof(90) EXCEPT !.usable_area = NotANumber],
     [ScenarioRoof(90) EXCEPT !.orientation = [type |-> "int", val |-> "7"]],
     [ScenarioRoof(90) EXCEPT !.slope = NotANumber]}

RoofInputs == WellFormedRoofs \cup MalformedRoofs

ConstantMonths(v) == [m \in 1..12 |-> v]

\* solar_data: a dictionary (kind "dict") or None (kind "none").
SolarInputs ==
    {[kind |-> "dict", annual_irradiance |-> Float(200750)],
     [kind |-> "dict", monthly_irradiance |-> ConstantMonths(450)],
     [kind |-> "dict"],
     [kind |-> "dict", annual_irradiance |-> NotANumber],
     [kind |-> "none"]}

\* "[]" stands for an unhashable object (a list) passed as panel_type.
Unhashable == "[]"
PanelTypeInputs == (DOMAIN PANEL_SPECS) \cup {"exotic", Unhashable}

RateInputs == {Float(20 * k) : k \in 0..MaxRateSteps} \cup {NotANumber}
CostInputs == {Float(0), Float(300), NotANumber}

NoValue == [type |-> "none", val |-> 0]

\* The identity of the dict object bound to SYSTEM_LOSSES: a field holding
\* it is that dict itself, not a copy, and reads as `losses`.
LossesRef == [ref |-> "SYSTEM_LOSSES"]

VARIABLES
    pc,                          \* position inside calculate_potential
    roof_metrics, solar_data, panel_type,
    electricity_rate, installation_cost_per_watt,
    panel_specs, system_size_kw, annual_energy_kwh,
    financial_metrics, environmental_impact,
    energy_factors,              \* locals of _calculate_annual_energy
    result,                      \* the returned record
    log,                         \* messages written by self.logger.error
    losses,                      \* contents of the module-level dict
                                 \* SYSTEM_LOSSES of config/constants.py
    kept,                        \* outcomes the caller holds on to
    payback                      \* frame of a _calculate_payback_period
                                 \* call followed statement by statement

vars == <<pc, roof_metrics, solar_data, panel_type, electricity_rate,
          installation_cost_per_watt, panel_specs, system_size_kw,
          annual_energy_kwh, financial_metrics, environmental_impact,
          energy_factors, result, log, losses, kept, payback>>

\* What no statement of calculate_potential assigns: the module-level dict,
\* the caller's records and the separately followed payback frame.
outside == <<losses, kept, payback>>

args == <<roof_metrics, solar_data, panel_type, electricity_rate,
          installation_cost_per_watt>>

(***************************************************************************)
(* SolarCalculator._calculate_system_size                                  *)
(***************************************************************************)
\* The exception the try block of the sizer raises, "none" if it completes.
SystemSizeException(rm) ==
    IF "usable_area" \notin DOMAIN rm THEN "KeyError"
    ELSE IF ~IsFloat(rm.usable_area) THEN "TypeError"
    ELSE "none"

\* Variant of the sizer without the 1 kW minimum of line 95.
SystemSizeBody_NoMinimum(usable_area, ps) ==
    LET max_panels == TruncDiv(usable_area, ps.area_m2)
        actual_panels == TruncDiv(max_panels * 75, 100)
    IN  Min(actual_panels * ps.power_watts, 50000)

\* Variant of the sizer without the 50 kW cap of line 93.
SystemSizeBody_NoCap(usable_area, ps) ==
    LET max_panels == TruncDiv(usable_area, ps.area_m2)
        actual_panels == TruncDiv(max_panels * 75, 100)
    IN  Max(1000, actual_panels * ps.power_watts)

\* Lines 78-95, for a numeric usable_area.
SystemSizeBody(usable_area, ps) ==
    LET panel_area == ps.area_m2
        panel_power == ps.power_watts
        max_panels == TruncDiv(usable_area, panel_area)
        actual_panels == TruncDiv(max_panels * 75, 100)
        size == Min(actual_panels * panel_power, 50000)
    IN  Max(1000, size)

\* Variant of the sizer that forgets the spacing factor of lines 86-87.
_calculate_system_size_NoSpacing(rm, ps) ==
    IF SystemSizeException(rm) = "none"
    THEN Max(1000, Min(TruncDiv(rm.usable_area.val, ps.area_m2)
                          * ps.power_watts, 50000))
    ELSE 5000

\* Variant of the sizer whose handler returns, in place of 5 kW, the
\* largest size of an earlier outcome, as a calculator that remembered its
\* results would.
_calculate_system_size_Remembered(rm, ps) ==
    IF SystemSizeException(rm) = "none"
    THEN SystemSizeBody(rm.usable_area.val, ps)
    ELSE IF kept = {}
         THEN 5000
         ELSE LET last == CHOOSE k \in kept : \A j \in kept :
                             k.result.system_size_kw >= j.result.system_size_kw
              IN  last.result.system_size_kw

_calculate_system_size(rm, ps) ==
    IF SystemSizeException(rm) = "none"
    THEN SystemSizeBody(rm.usable_area.val, ps)
    ELSE 5000

(***************************************************************************)
(* SolarCalculator._get_orientation_factor, _get_tilt_factor               *)
(***************************************************************************)
\* str.lower() on the orientation strings of the model.
Lower(s) ==
    CASE s = "NORTH" -> "north"
      [] s = "South" -> "south"
      [] s = "SouthEast" -> "southeast"
      [] s = "SOUTHWEST" -> "southwest"
      [] s = "East" -> "east"
      [] s = "WEST" -> "west"
      [] s = "NorthEast" -> "northeast"
      [] s = "NORTHWEST" -> "northwest"
      [] s = "Flat" -> "flat"
      [] OTHER -> s

orientation_factors ==
    [south |-> 100, southeast |-> 95, southwest |-> 95, east |-> 85,
     west |-> 85, northeast |-> 75, northwest |-> 75, north |-> 60]

\* Variant of the orientation lookup without .lower().
_get_orientation_factor_CaseSensitive(orientation) ==
    IF orientation \in DOMAIN orientation_factors
    THEN orientation_factors[orientation]
    ELSE 85

_get_orientation_factor(orientation) ==
    IF Lower(orientation) \in DOMAIN orientation_factors
    THEN orientation_factors[Lower(orientation)]
    ELSE 85

\* Variant of the tilt factor with strict band comparisons.
_get_tilt_factor_Strict(slope_degrees) ==
    IF slope_degrees < 10 THEN 90
    ELSE IF slope_degrees < 15 THEN 95
    ELSE IF slope_degrees < 25 THEN 100
    ELSE IF slope_degrees < 35 THEN 98
    ELSE IF slope_degrees < 45 THEN 95
    ELSE 85

_get_tilt_factor(slope_degrees) ==
    IF slope_degrees < 10 THEN 90
    ELSE IF slope_degrees <= 15 THEN 95
    ELSE IF slope_degrees <= 25 THEN 100
    ELSE IF slope_degrees <= 35 THEN 98
    ELSE IF slope_degrees <= 45 THEN 95
    ELSE 85

(***************************************************************************)
(* SolarCalculator._calculate_annual_energy                                *)
(***************************************************************************)
AnnualEnergyException(sd, rm) ==
    IF sd.kind = "none" THEN "TypeError"
    ELSE IF "annual_irradiance" \in DOMAIN sd /\ ~IsFloat(sd.annual_irradiance)
         THEN "TypeError"
    ELSE IF "orientation" \notin DOMAIN rm THEN "KeyError"
    ELSE IF rm.orientation.type # "str" THEN "AttributeError"
    ELSE IF "slope" \notin DOMAIN rm THEN "KeyError"
    ELSE IF ~IsFloat(rm.slope) THEN "TypeError"
    ELSE IF "shading_factor" \notin DOMAIN rm THEN "KeyError"
    ELSE IF ~IsFloat(rm.shading_factor) THEN "TypeError"
    ELSE "none"

\* Lines 107-113: the average daily irradiance.
DailyIrradiance(sd) ==
    IF "annual_irradiance" \in DOMAIN sd
    THEN sd.annual_irradiance.val \div 365
    ELSE IF "monthly_irradiance" \in DOMAIN sd
         THEN SumSeq(sd.monthly_irradiance) \div Len(sd.monthly_irradiance)
    ELSE 450

\* Variant of the performance ratio that also takes mismatch_losses (0.98).
TimesPerformanceRatio_Mismatch(x) ==
    MulDiv(MulDiv(MulDiv(MulDiv(MulDiv(x, 96, 100), 98, 100), 99, 100),
                  95, 100),
           98, 100)

\* Lines 125-130 applied to x: x * performance_ratio.
TimesPerformanceRatio(x) ==
    MulDiv(MulDiv(MulDiv(MulDiv(x, losses.inverter_efficiency, 100),
                         losses.dc_losses, 100),
                  losses.ac_losses, 100),
           losses.soiling_losses, 100)

\* Lines 107-122: the locals the energy product is built from.
EnergyFactors(sd, rm) ==
    [daily_irradiance |-> DailyIrradiance(sd),
     orientation_factor |-> _get_orientation_factor(rm.orientation.val),
     tilt_factor |-> _get_tilt_factor(rm.slope.val),
     shading_factor |-> 100 - rm.shading_factor.val]

\* Lines 116-143.
AnnualEnergyBody(size, sd, rm) ==
    LET f == EnergyFactors(sd, rm)
        perDay == TimesPerformanceRatio(
                      MulDiv(MulDiv(MulDiv(size * f.daily_irradiance,
                                           f.orientation_factor, 100),
                                    f.tilt_factor, 100),
                             f.shading_factor, 100))
    IN  Max(0, MulDiv(perDay, 365, 1000))

_calculate_annual_energy(size, sd, rm, ps) ==
    IF AnnualEnergyException(sd, rm) = "none"
    THEN AnnualEnergyBody(size, sd, rm)
    ELSE MulDiv(size, 1200 * 100, 1000)

\* Variant of the capacity factor whose theoretical maximum is
\* system_size_kw * 24, one day instead of one year.
_calculate_capacity_factor_OneDay(energy, size) ==
    IF size = 0 THEN 0
    ELSE LET capacity_factor == MulDiv(MulDiv(energy, 1000, size), 100, 24)
         IN  Min(10000, Max(0, capacity_factor))

_calculate_capacity_factor(energy, size) ==
    IF size = 0 THEN 0
    ELSE LET capacity_factor == MulDiv(MulDiv(energy, 1000, size), 100, 8760)
         IN  Min(10000, Max(0, capacity_factor))

(***************************************************************************)
(* SolarCalculator._calculate_payback_period, _calculate_lifetime_savings  *)
(***************************************************************************)
\* Variant of the payback loop that escalates the savings before adding them.
RECURSIVE PaybackLoop_EscalateFirst(_, _, _, _, _)
PaybackLoop_EscalateFirst(year, cumulative_savings, current_annual_savings, initial_cost, escalation_rate) ==
    IF cumulative_savings < initial_cost /\ year < 50
    THEN PaybackLoop_EscalateFirst(
             year + 1,
             cumulative_savings
               + MulDiv(current_annual_savings, 100 + escalation_rate, 100),
             MulDiv(current_annual_savings, 100 + escalation_rate, 100),
             initial_cost, escalation_rate)
    ELSE year

\* The while loop of lines 257-260; its value is the final year.
RECURSIVE PaybackLoop(_, _, _, _, _)
PaybackLoop(year, cumulative_savings, current_annual_savings, initial_cost, escalation_rate) ==
    IF cumulative_savings < initial_cost /\ year < 50
    THEN PaybackLoop(year + 1,
                     cumulative_savings + current_annual_savings,
                     MulDiv(current_annual_savings, 100 + escalation_rate, 100),
                     initial_cost, escalation_rate)
    ELSE year

\* Variant of the payback period whose no-payback sentinel is -1.
_calculate_payback_period_NegativeSentinel(initial_cost, annual_savings, escalation_rate) ==
    IF annual_savings <= 0
    THEN -10
    ELSE Min(10 * PaybackLoop(0, 0, annual_savings, initial_cost,
                              escalation_rate),
             500)

_calculate_payback_period(initial_cost, annual_savings, escalation_rate) ==
    IF annual_savings <= 0
    THEN 990
    ELSE Min(10 * PaybackLoop(0, 0, annual_savings, initial_cost,
                              escalation_rate),
             500)

\* Variant of the lifetime loop that escalates the savings before adding them.
RECURSIVE LifetimeLoop_EscalateFirst(_, _, _, _)
LifetimeLoop_EscalateFirst(years, total_savings, current_annual_savings, escalation_rate) ==
    IF years > 0
    THEN LifetimeLoop_EscalateFirst(
             years - 1,
             total_savings
               + MulDiv(current_annual_savings, 100 + escalation_rate, 100),
             MulDiv(current_annual_savings, 100 + escalation_rate, 100),
             escalation_rate)
    ELSE total_savings

\* The for loop of lines 271-273, with `years` iterations left.
RECURSIVE LifetimeLoop(_, _, _, _)
LifetimeLoop(years, total_savings, current_annual_savings, escalation_rate) ==
    IF years > 0
    THEN LifetimeLoop(years - 1,
                      total_savings + current_annual_savings,
                      MulDiv(current_annual_savings, 100 + escalation_rate, 100),
                      escalation_rate)
    ELSE total_savings

\* Variant of the lifetime savings that sums 20 years whatever `years` says.
_calculate_lifetime_savings_TwentyYears(annual_savings, escalation_rate, years) ==
    LifetimeLoop(20, 0, annual_savings, escalation_rate)

_calculate_lifetime_savings(annual_savings, escalation_rate, years) ==
    LifetimeLoop(years, 0, annual_savings, escalation_rate)

(***************************************************************************)
(* SolarCalculator._calculate_financial_metrics                            *)
(***************************************************************************)
_get_default_financial_metrics ==
    [total_cost |-> 1500000, federal_incentive |-> 450000,
     net_cost |-> 1050000, annual_savings |-> 120000,
     monthly_savings |-> 10000, payback_years |-> 88,
     lifetime_savings |-> 3000000, roi_percent |-> 1857,
     cost_per_watt |-> 300, savings_per_kwh |-> 20]

FinancialException(rate, cost) ==
    IF ~IsFloat(cost) THEN "TypeError"
    ELSE IF ~IsFloat(rate) THEN "TypeError"
    ELSE "none"

\* Variant of the financial metrics that computes the incentive but leaves
\* it out of net_cost.
FinancialBody_IncentiveNotDeducted(size, energy, rate, cost) ==
    LET total_cost == size * cost
        federal_incentive ==
            MulDiv(total_cost, FINANCIAL_PARAMS.federal_tax_credit, 100)
        net_cost == total_cost
        annual_savings == MulDiv(energy, rate, 100)
        escalation_rate == FINANCIAL_PARAMS.electricity_rate_escalation
        lifetime_savings ==
            _calculate_lifetime_savings(annual_savings, escalation_rate, 25)
    IN  [total_cost |-> total_cost, federal_incentive |-> federal_incentive,
         net_cost |-> net_cost, annual_savings |-> annual_savings,
         monthly_savings |-> annual_savings \div 12,
         payback_years |->
            _calculate_payback_period(net_cost, annual_savings,
                                      escalation_rate),
         lifetime_savings |-> lifetime_savings,
         roi_percent |->
            IF net_cost > 0
            THEN Ratio1000(lifetime_savings - net_cost, net_cost)
            ELSE 0,
         cost_per_watt |-> cost, savings_per_kwh |-> rate]

\* Variant of the financial metrics whose ROI divides the lifetime savings,
\* not the gain, by net_cost.
FinancialBody_RoiOfSavings(size, energy, rate, cost) ==
    LET total_cost == size * cost
        federal_incentive ==
            MulDiv(total_cost, FINANCIAL_PARAMS.federal_tax_credit, 100)
        net_cost == total_cost - federal_incentive
        annual_savings == MulDiv(energy, rate, 100)
        escalation_rate == FINANCIAL_PARAMS.electricity_rate_escalation
        lifetime_savings ==
            _calculate_lifetime_savings(annual_savings, escalation_rate, 25)
    IN  [total_cost |-> total_cost, federal_incentive |-> federal_incentive,
         net_cost |-> net_cost, annual_savings |-> annual_savings,
         monthly_savings |-> annual_savings \div 12,
         payback_years |->
            _calculate_payback_period(net_cost, annual_savings,
                                      escalation_rate),
         lifetime_savings |-> lifetime_savings,
         roi_percent |->
            IF net_cost > 0 THEN Ratio1000(lifetime_savings, net_cost) ELSE 0,
         cost_per_watt |-> cost, savings_per_kwh |-> rate]

\* Lines 201-240.
FinancialBody(size, energy, rate, cost) ==
    LET total_cost == size * cost
        federal_incentive ==
            MulDiv(total_cost, FINANCIAL_PARAMS.federal_tax_credit, 100)
        net_cost == total_cost - federal_incentive
        annual_savings == MulDiv(energy, rate, 100)
        escalation_rate == FINANCIAL_PARAMS.electricity_rate_escalation
        payback_years ==
            _calculate_payback_period(net_cost, annual_savings, escalation_rate)
        lifetime_savings ==
            _calculate_lifetime_savings(annual_savings, escalation_rate, 25)
        roi_percent ==
            IF net_cost > 0
            THEN Ratio1000(lifetime_savings - net_cost, net_cost)
            ELSE 0
    IN  [total_cost |-> total_cost, federal_incentive |-> federal_incentive,
         net_cost |-> net_cost, annual_savings |-> annual_savings,
         monthly_savings |-> annual_savings \div 12,
         payback_years |-> payback_years,
         lifetime_savings |-> lifetime_savings, roi_percent |-> roi_percent,
         cost_per_watt |-> cost, savings_per_kwh |-> rate]

_calculate_financial_metrics(size, energy, rate, cost) ==
    IF FinancialException(rate, cost) = "none"
    THEN FinancialBody(size, energy, rate.val, cost.val)
    ELSE _get_default_financial_metrics

(***************************************************************************)
(* SolarCalculator._calculate_environmental_impact                         *)
(***************************************************************************)
\* The exception the try block of lines 280-304 raises, "none" if it
\* completes: its arithmetic fails only on an energy that is not a number.
EnvironmentalException(energy) ==
    IF energy \in Int THEN "none" ELSE "TypeError"

\* Variant of the environmental metrics that converts pounds to metric
\* tons (2204.6 lb) instead of short tons (2000 lb).
EnvironmentalBody_MetricTons(energy) ==
    LET annual_co2_offset_lbs == MulDiv(energy, 85, 100)
        annual_co2_offset_tons == annual_co2_offset_lbs \div 22
    IN  [annual_co2_offset_lbs |-> annual_co2_offset_lbs,
         annual_co2_offset_tons |-> annual_co2_offset_tons,
         lifetime_co2_offset_tons |-> annual_co2_offset_tons * 25,
         equivalent_trees_planted |-> annual_co2_offset_lbs \div 48,
         equivalent_cars_removed |-> annual_co2_offset_tons \div 460]

\* Lines 283-304.  Units: lbs and trees 0.01, tons 0.0001, cars 0.01.
EnvironmentalBody(energy) ==
    LET annual_co2_offset_lbs == MulDiv(energy, 85, 100)
        annual_co2_offset_tons == annual_co2_offset_lbs \div 20
    IN  [annual_co2_offset_lbs |-> annual_co2_offset_lbs,
         annual_co2_offset_tons |-> annual_co2_offset_tons,
         lifetime_co2_offset_tons |-> annual_co2_offset_tons * 25,
         equivalent_trees_planted |-> annual_co2_offset_lbs \div 48,
         equivalent_cars_removed |-> annual_co2_offset_tons \div 460]

\* The dictionary of zeros the handler of lines 306-314 returns.
EnvironmentalZeros ==
    [annual_co2_offset_lbs |-> 0, annual_co2_offset_tons |-> 0,
     lifetime_co2_offset_tons |-> 0, equivalent_trees_planted |-> 0,
     equivalent_cars_removed |-> 0]

_calculate_environmental_impact(energy) ==
    IF EnvironmentalException(energy) = "none"
    THEN EnvironmentalBody(energy)
    ELSE EnvironmentalZeros

(***************************************************************************)
(* SolarCalculator._get_default_potential                                  *)
(***************************************************************************)
_get_default_potential ==
    [system_size_kw |-> 5000, panel_count |-> 16,
     annual_energy_kwh |-> 600000, monthly_energy_kwh |-> 50000,
     daily_energy_kwh |-> 1640, capacity_factor |-> 1400,
     annual_co2_offset_lbs |-> 510000, annual_co2_offset_tons |-> 25500,
     lifetime_co2_offset_tons |-> 637500,
     equivalent_trees_planted |-> 10600, equivalent_cars_removed |-> 55,
     system_specifications |->
        [panel_type |-> "monocrystalline", panel_power |-> 400,
         panel_efficiency |-> 20, system_losses |-> LossesRef]]
    @@ _get_default_financial_metrics

(***************************************************************************)
(* SolarCalculator.calculate_potential, one action per statement of its    *)
(* try block and one for its except clause.                                *)
(***************************************************************************)
\* Variant of the lookup whose fallback is the thin_film entry.
PanelSpecsGet_FallbackThinFilm(pt) ==
    IF pt \in DOMAIN PANEL_SPECS
    THEN PANEL_SPECS[pt]
    ELSE PANEL_SPECS["thin_film"]

\* PANEL_SPECS.get(panel_type, PANEL_SPECS['monocrystalline'])
PanelSpecsGet(pt) ==
    IF pt \in DOMAIN PANEL_SPECS
    THEN PANEL_SPECS[pt]
    ELSE PANEL_SPECS["monocrystalline"]

PanelLookupException(pt) == IF pt = Unhashable THEN "TypeError" ELSE "none"

\* Variant of the outer handler that takes only KeyError and ValueError.
OuterExcept_Narrow(exc) ==
    IF exc \in {"KeyError", "ValueError"} THEN "except" ELSE "raised"

\* Where control goes when exc is raised inside the try block of
\* calculate_potential: `except Exception` takes every exception class.
OuterExcept(exc) == "except"

\* Variant of the panel count that divides by the 400 W of the default panel.
PanelCount_DefaultPower(size, ps) == TruncDiv(size, 400)

\* 'panel_count': int(system_size_kw * 1000 / panel_specs['power_watts'])
PanelCount(size, ps) == TruncDiv(size, ps.power_watts)

\* The dictionary built by the return statement of lines 51-68.
ComputedRecord(size, energy, fin, env, pt, ps) ==
    [system_size_kw |-> size,
     panel_count |-> PanelCount(size, ps),
     annual_energy_kwh |-> energy,
     monthly_energy_kwh |-> energy \div 12,
     daily_energy_kwh |-> energy \div 365,
     capacity_factor |-> _calculate_capacity_factor(energy, size),
     system_specifications |->
        [panel_type |-> pt, panel_power |-> ps.power_watts,
         panel_efficiency |-> ps.efficiency, system_losses |-> LossesRef]]
    @@ fin @@ env

Init ==
    /\ pc = "idle"
    /\ roof_metrics = NoValue
    /\ solar_data = NoValue
    /\ panel_type = ""
    /\ electricity_rate = NoValue
    /\ installation_cost_per_watt = NoValue
    /\ panel_specs = NoValue
    /\ system_size_kw = 0
    /\ annual_energy_kwh = 0
    /\ financial_metrics = NoValue
    /\ environmental_impact = NoValue
    /\ energy_factors = NoValue
    /\ result = NoValue
    /\ log = <<>>
    /\ losses = SYSTEM_LOSSES
    /\ kept = {}
    /\ payback = NoValue

locals == <<panel_specs, system_size_kw, annual_energy_kwh,
            financial_metrics, environmental_impact, energy_factors>>

\* A caller invokes calculate_potential(rm, sd, pt, rate, cost).
Call ==
    /\ pc = "idle"
    /\ \E rm \in RoofInputs, sd \in SolarInputs, pt \in PanelTypeInputs,
          rate \in RateInputs, cost \in CostInputs :
          /\ roof_metrics' = rm
          /\ solar_data' = sd
          /\ panel_type' = pt
          /\ electricity_rate' = rate
          /\ installation_cost_per_watt' = cost
    /\ pc' = "panel_specs"
    /\ UNCHANGED <<locals, result, log, outside>>

\* Line 32.
GetPanelSpecs ==
    /\ pc = "panel_specs"
    /\ IF PanelLookupException(panel_type) = "none"
       THEN /\ panel_specs' = PanelSpecsGet(panel_type)
            /\ pc' = "system_size"
       ELSE /\ panel_specs' = panel_specs
            /\ pc' = OuterExcept(PanelLookupException(panel_type))
    /\ UNCHANGED <<args, system_size_kw, annual_energy_kwh, financial_metrics,
                   environmental_impact, energy_factors, result, log,
                   outside>>

\* Line 35; the handler of lines 97-99 logs and substitutes 5 kW.
CalculateSystemSize ==
    /\ pc = "system_size"
    /\ system_size_kw' = _calculate_system_size(roof_metrics, panel_specs)
    /\ log' = IF SystemSizeException(roof_metrics) = "none"
              THEN log
              ELSE Append(log, "System size calculation failed")
    /\ pc' = "annual_energy"
    /\ UNCHANGED <<args, panel_specs, annual_energy_kwh, financial_metrics,
                   environmental_impact, energy_factors, result,
                   outside>>

\* Lines 38-40; the handler of lines 145-147 logs and substitutes
\* 1200 kWh per kW.
CalculateAnnualEnergy ==
    /\ pc = "annual_energy"
    /\ annual_energy_kwh' =
          _calculate_annual_energy(system_size_kw, solar_data, roof_metrics,
                                   panel_specs)
    /\ log' = IF AnnualEnergyException(solar_data, roof_metrics) = "none"
              THEN log
              ELSE Append(log, "Energy calculation failed")
    /\ energy_factors' =
          IF AnnualEnergyException(solar_data, roof_metrics) = "none"
          THEN EnergyFactors(solar_data, roof_metrics)
          ELSE NoValue
    /\ pc' = "financial"
    /\ UNCHANGED <<args, panel_specs, system_size_kw, financial_metrics,
                   environmental_impact, result,
                   outside>>

\* Lines 43-46; the handler of lines 242-244 logs and substitutes the
\* default financial metrics.
CalculateFinancialMetrics ==
    /\ pc = "financial"
    /\ financial_metrics' =
          _calculate_financial_metrics(system_size_kw, annual_energy_kwh,
                                       electricity_rate,
                                       installation_cost_per_watt)
    /\ log' = IF FinancialException(electricity_rate,
                                    installation_cost_per_watt) = "none"
              THEN log
              ELSE Append(log, "Financial calculation failed")
    /\ pc' = "environmental"
    /\ UNCHANGED <<args, panel_specs, system_size_kw, annual_energy_kwh,
                   environmental_impact, energy_factors, result,
                   outside>>

\* Line 49; the handler of lines 306-314 logs and substitutes zeros.
CalculateEnvironmentalImpact ==
    /\ pc = "environmental"
    /\ environmental_impact' =
          _calculate_environmental_impact(annual_energy_kwh)
    /\ log' = IF EnvironmentalException(annual_energy_kwh) = "none"
              THEN log
              ELSE Append(log, "Environmental impact calculation failed")
    /\ pc' = "return"
    /\ UNCHANGED <<args, panel_specs, system_size_kw, annual_energy_kwh,
                   financial_metrics, energy_factors, result,
                   outside>>

\* Lines 51-68.
ReturnComputed ==
    /\ pc = "return"
    /\ result' = ComputedRecord(system_size_kw, annual_energy_kwh,
                                financial_metrics, environmental_impact,
                                panel_type, panel_specs)
    /\ pc' = "done"
    /\ UNCHANGED <<args, locals, log, outside>>

\* Lines 70-72.
ReturnDefault ==
    /\ pc = "except"
    /\ log' = Append(log, "Solar potential calculation failed")
    /\ result' = _get_default_potential
    /\ pc' = "done"
    /\ UNCHANGED <<args, locals, outside>>

\* The caller has the outcome; the calculator is ready for the next call.
NextCall ==
    /\ pc \in {"done", "raised"}
    /\ pc' = "idle"
    /\ roof_metrics' = NoValue
    /\ solar_data' = NoValue
    /\ panel_type' = ""
    /\ electricity_rate' = NoValue
    /\ installation_cost_per_watt' = NoValue
    /\ panel_specs' = NoValue
    /\ system_size_kw' = 0
    /\ annual_energy_kwh' = 0
    /\ financial_metrics' = NoValue
    /\ environmental_impact' = NoValue
    /\ energy_factors' = NoValue
    /\ result' = NoValue
    /\ log' = <<>>
    /\ UNCHANGED outside

Next ==
    \/ Call
    \/ GetPanelSpecs
    \/ CalculateSystemSize
    \/ CalculateAnnualEnergy
    \/ CalculateFinancialMetrics
    \/ CalculateEnvironmentalImpact
    \/ ReturnComputed
    \/ ReturnDefault
    \/ NextCall

Spec == Init /\ [][Next]_vars

(***************************************************************************)
(* _calculate_annual_energy and the statements after it, entered with the  *)
(* 13.2 kW system of a 90 m^2 roof, over every orientation string and an   *)
(* orientation that is a number, every whole slope up to MaxSlope and      *)
(* shading below and above 100 %.                                          *)
(***************************************************************************)
OrientationStrings ==
    (DOMAIN orientation_factors)
    \cup {"South", "NORTH", "SouthEast", "SOUTHWEST", "East", "WEST",
          "NorthEast", "NORTHWEST"}
    \cup {"flat", "Flat", "up"}

EnergyRoofs ==
    [usable_area : {Float(90)},
     orientation : {[type |-> "str", val |-> o] : o \in OrientationStrings}
                      \cup {[type |-> "int", val |-> "7"]},
     slope : {Float(d) : d \in -1..MaxSlope},
     shading_factor : {Float(15), Float(95), Float(120)}]

InitEnergy ==
    /\ pc = "annual_energy"
    /\ roof_metrics \in EnergyRoofs
    /\ solar_data \in SolarInputs
    /\ panel_type = "monocrystalline"
    /\ electricity_rate = Float(20)
    /\ installation_cost_per_watt = Float(300)
    /\ panel_specs = PanelSpecsGet(panel_type)
    /\ system_size_kw = _calculate_system_size(roof_metrics, panel_specs)
    /\ annual_energy_kwh = 0
    /\ financial_metrics = NoValue
    /\ environmental_impact = NoValue
    /\ energy_factors = NoValue
    /\ result = NoValue
    /\ log = <<>>
    /\ losses = SYSTEM_LOSSES
    /\ kept = {}
    /\ payback = NoValue

NextEnergy ==
    \/ CalculateAnnualEnergy
    \/ CalculateFinancialMetrics
    \/ CalculateEnvironmentalImpact
    \/ ReturnComputed

SpecEnergy == InitEnergy /\ [][NextEnergy]_vars

(***************************************************************************)
(* _calculate_system_size alone, over every whole usable area up to        *)
(* MaxUsableArea and every panel specification.                            *)
(***************************************************************************)
InitSizer ==
    /\ pc = "system_size"
    /\ roof_metrics \in {ScenarioRoof(a) : a \in -4..MaxUsableArea}
    /\ solar_data = [kind |-> "dict", monthly_irradiance |-> ConstantMonths(450)]
    /\ panel_type \in (DOMAIN PANEL_SPECS) \cup {"exotic"}
    /\ electricity_rate = Float(20)
    /\ installation_cost_per_watt = Float(300)
    /\ panel_specs = PanelSpecsGet(panel_type)
    /\ system_size_kw = 0
    /\ annual_energy_kwh = 0
    /\ financial_metrics = NoValue
    /\ environmental_impact = NoValue
    /\ energy_factors = NoValue
    /\ result = NoValue
    /\ log = <<>>
    /\ losses = SYSTEM_LOSSES
    /\ kept = {}
    /\ payback = NoValue

NextSizer == CalculateSystemSize

SpecSizer == InitSizer /\ [][NextSizer]_vars

(***************************************************************************)
(* A caller that calls calculate_potential again and again with arguments  *)
(* from a short list, and holds on to up to MaxKept of the outcomes.        *)
(***************************************************************************)
RepeatedRoofs == {ScenarioRoof(90), Without(ScenarioRoof(90), "usable_area")}
RepeatedPanelTypes == {"monocrystalline", "exotic", "thin_film", Unhashable}
RepeatedCosts == {Float(300), NotANumber}

\* calculate_potential(rm, monthly 4.5, pt, 0.20, cost) of a later call.
RepeatedCall ==
    /\ pc = "idle"
    /\ \E rm \in RepeatedRoofs, pt \in RepeatedPanelTypes,
          cost \in RepeatedCosts :
          /\ roof_metrics' = rm
          /\ panel_type' = pt
          /\ installation_cost_per_watt' = cost
    /\ solar_data' =
          [kind |-> "dict", monthly_irradiance |-> ConstantMonths(450)]
    /\ electricity_rate' = Float(20)
    /\ pc' = "panel_specs"
    /\ UNCHANGED <<locals, result, log, outside>>

\* The caller stores the record it was given next to the arguments it
\* passed.  The stored system_losses is still the dict it refers to.
CallerKeepsResult ==
    /\ pc = "done"
    /\ Cardinality(kept) < MaxKept
    /\ kept' = kept \cup {[roof_metrics |-> roof_metrics,
                           solar_data |-> solar_data,
                           panel_type |-> panel_type,
                           electricity_rate |-> electricity_rate,
                           installation_cost_per_watt |->
                               installation_cost_per_watt,
                           result |-> result]}
    /\ kept' # kept
    /\ UNCHANGED <<pc, args, locals, result, log, losses, payback>>

\* The caller assigns to an entry of the loss chain of the record it was
\* given: result['system_specifications']['system_losses'][key] = value.
\* The assignment lands in the dict the field refers to.
CallerModifiesReturnedLosses ==
    /\ pc = "done"
    /\ \E key \in {"inverter_efficiency"}, value \in {50} :
          IF result.system_specifications.system_losses = LossesRef
          THEN /\ losses' = [losses EXCEPT ![key] = value]
               /\ result' = result
          ELSE /\ result' = [result EXCEPT
                     !.system_specifications.system_losses[key] = value]
               /\ losses' = losses
    /\ UNCHANGED <<pc, args, locals, log, kept, payback>>

NextCalls ==
    \/ RepeatedCall
    \/ GetPanelSpecs
    \/ CalculateSystemSize
    \/ CalculateAnnualEnergy
    \/ CalculateFinancialMetrics
    \/ CalculateEnvironmentalImpact
    \/ ReturnComputed
    \/ ReturnDefault
    \/ CallerKeepsResult
    \/ NextCall

SpecCalls == Init /\ [][NextCalls]_vars

NextAlias == NextCalls \/ CallerModifiesReturnedLosses

SpecAlias == Init /\ [][NextAlias]_vars

(***************************************************************************)
(* The stages from _calculate_annual_energy on for the 13.2 kW system of a *)
(* 90 m^2 roof, over annual irradiance from 0 to MaxIrradianceSteps        *)
(* kWh/m^2/day, three shading levels, three electricity rates and          *)
(* installation costs from 0 to MaxCostSteps half dollars per watt.        *)
(***************************************************************************)
FinancialRoofs ==
    {[ScenarioRoof(90) EXCEPT !.shading_factor = Float(s)] : s \in {15, 50, 95}}

FinancialSolarInputs ==
    {[kind |-> "dict", annual_irradiance |-> Float(36500 * k)] :
        k \in 0..MaxIrradianceSteps}

InitFinancial ==
    /\ pc = "annual_energy"
    /\ roof_metrics \in FinancialRoofs
    /\ solar_data \in FinancialSolarInputs
    /\ panel_type = "monocrystalline"
    /\ electricity_rate \in {Float(0), Float(5), Float(20)}
    /\ installation_cost_per_watt \in {Float(50 * k) : k \in 0..MaxCostSteps}
    /\ panel_specs = PanelSpecsGet(panel_type)
    /\ system_size_kw = _calculate_system_size(roof_metrics, panel_specs)
    /\ annual_energy_kwh = 0
    /\ financial_metrics = NoValue
    /\ environmental_impact = NoValue
    /\ energy_factors = NoValue
    /\ result = NoValue
    /\ log = <<>>
    /\ losses = SYSTEM_LOSSES
    /\ kept = {}
    /\ payback = NoValue

SpecFinancial == InitFinancial /\ [][NextEnergy]_vars

(***************************************************************************)
(* _calculate_payback_period followed statement by statement, for costs,   *)
(* savings and escalation rates of either sign.                            *)
(***************************************************************************)
PaybackCosts == {-100, 0, 1, 100000, 2772000}
PaybackSavings == {-500, 0, 1, 3000, 326125}
PaybackEscalations == {-150, -100, -50, -3, 0, 3, 10}

PaybackFrames ==
    [at : {"entry"}, initial_cost : PaybackCosts,
     annual_savings : PaybackSavings, escalation_rate : PaybackEscalations,
     cumulative_savings : {0}, year : {0}, current_annual_savings : {0},
     iterations : {0}, value : {0}]

InitPayback ==
    /\ pc = "idle"
    /\ roof_metrics = NoValue
    /\ solar_data = NoValue
    /\ panel_type = ""
    /\ electricity_rate = NoValue
    /\ installation_cost_per_watt = NoValue
    /\ panel_specs = NoValue
    /\ system_size_kw = 0
    /\ annual_energy_kwh = 0
    /\ financial_metrics = NoValue
    /\ environmental_impact = NoValue
    /\ energy_factors = NoValue
    /\ result = NoValue
    /\ log = <<>>
    /\ losses = SYSTEM_LOSSES
    /\ kept = {}
    /\ payback \in PaybackFrames

\* Lines 250-255: the early return of 99.0, or the loop's initial values.
PaybackEnter ==
    /\ payback.at = "entry"
    /\ payback' =
          IF payback.annual_savings <= 0
          THEN [payback EXCEPT !.at = "returned", !.value = 990]
          ELSE [payback EXCEPT !.at = "loop",
                               !.cumulative_savings = 0,
                               !.year = 0,
                               !.current_annual_savings = payback.annual_savings]
    /\ UNCHANGED <<pc, args, locals, result, log, losses, kept>>

\* Variant of the loop whose year limit is `year <= 50`.
PaybackIterate_LimitIncluded ==
    /\ payback.at = "loop"
    /\ payback.cumulative_savings < payback.initial_cost
    /\ payback.year <= 50
    /\ payback' =
          [payback EXCEPT
              !.year = @ + 1,
              !.cumulative_savings = @ + payback.current_annual_savings,
              !.current_annual_savings =
                  MulDiv(@, 100 + payback.escalation_rate, 100),
              !.iterations = @ + 1]
    /\ UNCHANGED <<pc, args, locals, result, log, losses, kept>>

\* Lines 257-260: one pass through the body of the while loop.
PaybackIterate ==
    /\ payback.at = "loop"
    /\ payback.cumulative_savings < payback.initial_cost
    /\ payback.year < 50
    /\ payback' =
          [payback EXCEPT
              !.year = @ + 1,
              !.cumulative_savings = @ + payback.current_annual_savings,
              !.current_annual_savings =
                  MulDiv(@, 100 + payback.escalation_rate, 100),
              !.iterations = @ + 1]
    /\ UNCHANGED <<pc, args, locals, result, log, losses, kept>>

\* Lines 257 and 262: the loop condition fails and min(year, 50.0) returns.
PaybackReturn ==
    /\ payback.at = "loop"
    /\ ~(payback.cumulative_savings < payback.initial_cost
           /\ payback.year < 50)
    /\ payback' = [payback EXCEPT !.at = "returned",
                                  !.value = Min(10 * payback.year, 500)]
    /\ UNCHANGED <<pc, args, locals, result, log, losses, kept>>

NextPayback == PaybackEnter \/ PaybackIterate \/ PaybackReturn

\* The interpreter goes on executing the call until it returns.
SpecPayback == InitPayback /\ [][NextPayback]_vars /\ WF_vars(NextPayback)

TypeOK == pc \in {"idle", "panel_specs", "system_size", "annual_energy",
                  "financial", "environmental", "return", "except", "done",
                  "raised"}

(***************************************************************************)
(* utils/validators.py, APIValidator.validate_calculation_results:         *)
(* the upper limit of the payback range check of line 315.                 *)
(***************************************************************************)
PaybackAboveRange(payback_years) == payback_years > 500

(***************************************************************************)
(* Properties.                                                             *)
(***************************************************************************)
Returned == pc = "done"

\* The arguments of end-to-end scenario A, with the given usable area.
ScenarioArgs(area) ==
    /\ roof_metrics = ScenarioRoof(area)
    /\ solar_data = [kind |-> "dict", monthly_irradiance |-> ConstantMonths(450)]
    /\ panel_type = "monocrystalline"
    /\ electricity_rate = Float(20)
    /\ installation_cost_per_watt = Float(300)

\* Valid inputs: every required roof key with a numeric value, a panel type
\* string, a non-negative rate and cost.
ValidInputs ==
    /\ roof_metrics \in WellFormedRoofs
    /\ panel_type # Unhashable
    /\ IsFloat(electricity_rate) /\ electricity_rate.val >= 0
    /\ IsFloat(installation_cost_per_watt)
    /\ installation_cost_per_watt.val >= 0

\* C1: for valid inputs the returned record has
\* panel_count = floor(system_size_kw * 1000 / panel_power_watts) and
\* 1.0 <= system_size_kw <= 50.0.
C1_PanelCountAndSizeRange ==
    (Returned /\ ValidInputs) =>
        /\ result.panel_count =
              result.system_size_kw \div PanelSpecsGet(panel_type).power_watts
        /\ result.system_size_kw >= 1000
        /\ result.system_size_kw <= 50000

C1_Witness ==
    /\ Returned /\ ValidInputs
    /\ panel_type = "thin_film"
    /\ result.system_size_kw = 50000
    /\ result.panel_count = 200

\* C2: a returned record is either computed entirely from the inputs or is
\* exactly the canned fallback record; no inner handler has substituted a
\* default inside an otherwise computed record.
C2_NoMixedRecord ==
    Returned => (result = _get_default_potential \/ log = <<>>)

\* C3: with the usable_area key missing the call returns the fallback
\* result, system_size_kw = 5.0 and panel_count = 16.
C3_MissingUsableAreaGivesFallback ==
    (Returned /\ "usable_area" \notin DOMAIN roof_metrics) =>
        /\ result.system_size_kw = 5000
        /\ result.panel_count = 16

\* C4: no exception leaves calculate_potential; whatever the arguments, the
\* call ends with a complete result record.
C4_NeverRaises ==
    /\ pc # "raised"
    /\ Returned => DOMAIN result = DOMAIN _get_default_potential

C4_Witness ==
    /\ Returned
    /\ panel_type = Unhashable
    /\ result = _get_default_potential

\* C5: whenever the annual savings are <= 0 the returned payback_years is
\* the sentinel 50.0.
C5_NoPaybackSentinelIs50 ==
    (Returned /\ result.annual_savings <= 0) => result.payback_years = 500

\* C6: payback_years of a returned record never exceeds the 50 year cap, the
\* upper limit validate_calculation_results accepts.
C6_PaybackWithinCap ==
    Returned => ~PaybackAboveRange(result.payback_years)

\* Savings of year k and cumulative savings through year n, 3 % escalation.
RECURSIVE YearSavings(_, _)
YearSavings(annual_savings, k) ==
    IF k <= 1
    THEN annual_savings
    ELSE MulDiv(YearSavings(annual_savings, k - 1),
                100 + FINANCIAL_PARAMS.electricity_rate_escalation, 100)

RECURSIVE CumulativeSavings(_, _)
CumulativeSavings(annual_savings, n) ==
    IF n <= 0
    THEN 0
    ELSE CumulativeSavings(annual_savings, n - 1) + YearSavings(annual_savings, n)

FinancialsComputed ==
    /\ Returned
    /\ result # _get_default_potential
    /\ FinancialException(electricity_rate, installation_cost_per_watt) = "none"

\* C7: for annual_savings > 0 and net_cost > 0, payback_years is the smallest
\* whole year n in 1..50 whose cumulative escalated savings reach net_cost,
\* and 50 when there is none.
C7_PaybackIsFirstYearReached ==
    (FinancialsComputed /\ result.annual_savings > 0 /\ result.net_cost > 0) =>
        LET n == result.payback_years \div 10
            Reached(k) ==
                CumulativeSavings(result.annual_savings, k) >= result.net_cost
        IN  /\ result.payback_years = 10 * n
            /\ n \in 1..50
            /\ \A k \in 1..(n - 1) : ~Reached(k)
            /\ Reached(n) \/ n = 50

C7_Witness ==
    /\ FinancialsComputed
    /\ result.annual_savings > 0 /\ result.net_cost > 0
    /\ result.payback_years = 80
    /\ CumulativeSavings(result.annual_savings, 7) < result.net_cost
    /\ CumulativeSavings(result.annual_savings, 8) >= result.net_cost

SizerReturned ==
    /\ pc \in {"annual_energy", "financial", "environmental", "return", "done"}
    /\ PanelLookupException(panel_type) = "none"

Clamp(x, lo, hi) == IF x < lo THEN lo ELSE IF x > hi THEN hi ELSE x

\* C8: for a numeric usable_area the sizer returns
\* clamp(floor(floor(usable_area / panel_area) * 0.75) * panel_power / 1000,
\* 1.0, 50.0), so 1.0 kW when the area is 0 or below one panel's area.
C8_SizerFormula ==
    (SizerReturned /\ SystemSizeException(roof_metrics) = "none") =>
        LET usable_area == roof_metrics.usable_area.val
            fit == usable_area \div panel_specs.area_m2
        IN  /\ system_size_kw =
                  Clamp(((fit * 75) \div 100) * panel_specs.power_watts,
                        1000, 50000)
            /\ usable_area < panel_specs.area_m2 => system_size_kw = 1000

C8_Witness ==
    /\ pc = "annual_energy"
    /\ roof_metrics \in WellFormedRoofs
    /\ roof_metrics.usable_area.val = 0
    /\ system_size_kw = 1000

\* C9 as stated: scenario B (usable_area = 10) returns the 1.0 kW minimum.
C9_ScenarioBReturnsMinimum ==
    (Returned /\ ScenarioArgs(10)) => result.system_size_kw = 1000

\* C9 amended: scenario B returns 1.2 kW, 3 panels of 400 W, which the
\* 1.0 kW minimum leaves unchanged.
C9_ScenarioBReturns1200W ==
    (Returned /\ ScenarioArgs(10)) =>
        /\ result.system_size_kw = 1200
        /\ result.panel_count = 3

C9_Witness ==
    /\ Returned /\ ScenarioArgs(10)
    /\ result.system_size_kw > 1000

\* C10: scenario A returns panel_count 33, system_size_kw 13.2 and an annual
\* energy within 1 % of 13.2 * 4.5 * 0.85 * 0.8848224 * 365 = 16306.26 kWh.
C10_ScenarioA ==
    (Returned /\ ScenarioArgs(90)) =>
        /\ result.panel_count = 33
        /\ result.system_size_kw = 13200
        /\ 100 * (result.annual_energy_kwh - 1630626) <= 1630626
        /\ 100 * (1630626 - result.annual_energy_kwh) <= 1630626

C10_Witness ==
    /\ Returned /\ ScenarioArgs(90)
    /\ result.panel_count = 33
    /\ result.annual_energy_kwh > 1630000

EnergyStageCompleted ==
    /\ pc \in {"financial", "environmental", "return", "done"}
    /\ PanelLookupException(panel_type) = "none"
    /\ AnnualEnergyException(solar_data, roof_metrics) = "none"

\* size * daily * orientation * tilt * shading * performance_ratio * 365 with
\* the factors grouped in pairs and the four loss coefficients multiplied
\* together, floored at 0.
ExpectedAnnualEnergy(size, f) ==
    LET geometry == f.orientation_factor * f.tilt_factor
        electrical ==
            SYSTEM_LOSSES.inverter_efficiency * SYSTEM_LOSSES.dc_losses
        exposure == SYSTEM_LOSSES.ac_losses * SYSTEM_LOSSES.soiling_losses
        perDay ==
            MulDiv(MulDiv(MulDiv(MulDiv(size * f.daily_irradiance,
                                        geometry, 10000),
                                 f.shading_factor, 100),
                          electrical, 10000),
                   exposure, 10000)
    IN  Max(0, MulDiv(perDay, 365, 1000))

\* C11: for well-formed inputs the annual energy is max(0, system_size_kw *
\* daily_irradiance * orientation_factor * tilt_factor * (1 - shading_factor)
\* * performance_ratio * 365) with the four loss coefficients (to 0.03 kWh of
\* rounding); monthly_energy_kwh is it / 12 and daily_energy_kwh is it / 365.
C11_AnnualEnergyProduct ==
    (Returned /\ EnergyStageCompleted) =>
        LET expected == ExpectedAnnualEnergy(result.system_size_kw,
                                             energy_factors)
            energy == result.annual_energy_kwh
        IN  /\ energy - expected <= 3 /\ expected - energy <= 3
            /\ energy >= 0
            /\ 12 * result.monthly_energy_kwh <= energy
            /\ energy < 12 * (result.monthly_energy_kwh + 1)
            /\ 365 * result.daily_energy_kwh <= energy
            /\ energy < 365 * (result.daily_energy_kwh + 1)

C11_Witness ==
    /\ Returned /\ EnergyStageCompleted
    /\ energy_factors.orientation_factor = 95
    /\ energy_factors.tilt_factor = 98
    /\ energy_factors.shading_factor = 85
    /\ energy_factors.daily_irradiance = 550
    /\ result.annual_energy_kwh > 1800000
    /\ result.monthly_energy_kwh > 150000

\* C12: the daily irradiance baseline is annual_irradiance / 365 when that is
\* present, otherwise the mean of monthly_irradiance when that is present,
\* otherwise 4.5; with missing or unusable irradiance data the estimate
\* proceeds from the 4.5 baseline and from no other default.
C12_IrradianceBaseline ==
    (/\ pc \in {"financial", "environmental", "return", "done"}
     /\ roof_metrics \in EnergyRoofs
     /\ roof_metrics.orientation.type = "str") =>
        LET usable == solar_data.kind = "dict"
            baseline ==
                IF /\ usable
                   /\ "annual_irradiance" \in DOMAIN solar_data
                   /\ IsFloat(solar_data.annual_irradiance)
                THEN solar_data.annual_irradiance.val \div 365
                ELSE IF usable /\ "monthly_irradiance" \in DOMAIN solar_data
                     THEN SumSeq(solar_data.monthly_irradiance) \div 12
                ELSE 450
        IN  /\ energy_factors # NoValue
            /\ energy_factors.daily_irradiance = baseline
            /\ annual_energy_kwh =
                  AnnualEnergyBody(system_size_kw,
                                   [kind |-> "dict",
                                    annual_irradiance |-> Float(365 * baseline)],
                                   roof_metrics)

\* C13: the orientation factor is looked up case-insensitively: south 1.00,
\* southeast and southwest 0.95, east and west 0.85, northeast and northwest
\* 0.75, north 0.60, and 0.85 for every other orientation string.
C13_OrientationFactorTable ==
    EnergyStageCompleted =>
        LET o == roof_metrics.orientation.val
            factor == energy_factors.orientation_factor
        IN  /\ o \in {"south", "South"} => factor = 100
            /\ o \in {"southeast", "SouthEast", "southwest", "SOUTHWEST"}
                  => factor = 95
            /\ o \in {"east", "East", "west", "WEST"} => factor = 85
            /\ o \in {"northeast", "NorthEast", "northwest", "NORTHWEST"}
                  => factor = 75
            /\ o \in {"north", "NORTH"} => factor = 60
            /\ o \in {"flat", "Flat", "up"} => factor = 85
            /\ factor \in {100, 95, 85, 75, 60}

C13_Witness ==
    /\ pc = "financial"
    /\ EnergyStageCompleted
    /\ roof_metrics.orientation.val = "NORTHWEST"
    /\ energy_factors.orientation_factor = 75

\* C14: with every other input fixed, the annual_energy_kwh returned for
\* orientation south is at least the annual_energy_kwh returned for any
\* other orientation value.
C14_SouthYieldsMost ==
    (Returned /\ "orientation" \in DOMAIN roof_metrics) =>
        result.annual_energy_kwh <=
            _calculate_annual_energy(
                system_size_kw, solar_data,
                [roof_metrics EXCEPT
                    !.orientation = [type |-> "str", val |-> "south"]],
                panel_specs)

\* C15: the tilt factor is total and piecewise in the slope: 0.90 below 10,
\* 0.95 from 10 to 15, 1.00 above 15 to 25, 0.98 above 25 to 35, 0.95 above
\* 35 to 45 and 0.85 above 45; the boundaries 15, 25, 35 and 45 belong to
\* the lower band and 10 gives 0.95.
C15_TiltFactorBands ==
    EnergyStageCompleted =>
        LET slope == roof_metrics.slope.val
            factor == energy_factors.tilt_factor
            bands == <<[lo |-> -1000, hi |-> 9, f |-> 90],
                       [lo |-> 10, hi |-> 15, f |-> 95],
                       [lo |-> 16, hi |-> 25, f |-> 100],
                       [lo |-> 26, hi |-> 35, f |-> 98],
                       [lo |-> 36, hi |-> 45, f |-> 95],
                       [lo |-> 46, hi |-> 1000, f |-> 85]>>
            mine == {i \in 1..6 : bands[i].lo <= slope /\ slope <= bands[i].hi}
        IN  /\ Cardinality(mine) = 1
            /\ \A i \in mine : factor = bands[i].f
            /\ slope = 10 => factor = 95
            /\ slope = 25 => factor = 100

C15_Witness ==
    /\ pc = "financial"
    /\ EnergyStageCompleted
    /\ roof_metrics.slope.val = 45
    /\ energy_factors.tilt_factor = 95

\* C16: the capacity_factor of every returned record lies in [0, 1]; in a
\* computed record it is annual_energy_kwh / (system_size_kw * 8760) clamped
\* to [0, 1] (to 0.0001 of rounding); the function gives 0 for a system size
\* of 0.
C16_CapacityFactor ==
    Returned =>
        /\ result.capacity_factor >= 0
        /\ result.capacity_factor <= 10000
        /\ result # _get_default_potential =>
              LET perHour == MulDiv(result.annual_energy_kwh, 100, 8760)
                  expected ==
                      Clamp(MulDiv(perHour, 1000, result.system_size_kw),
                            0, 10000)
              IN  /\ result.capacity_factor - expected <= 1
                  /\ expected - result.capacity_factor <= 1
        /\ _calculate_capacity_factor(result.annual_energy_kwh, 0) = 0

C16_Witness ==
    /\ Returned /\ ScenarioArgs(90)
    /\ result.capacity_factor = 1410
    /\ result.annual_energy_kwh = 1630625

\* C17: with the panel type and the other inputs fixed, system_size_kw never
\* decreases when usable_area grows, and once it is 50 kW it is 50 kW for
\* every larger usable_area.
C17_SizeMonotoneInArea ==
    (SizerReturned /\ SystemSizeException(roof_metrics) = "none") =>
        \A larger \in (roof_metrics.usable_area.val + 1)..MaxUsableArea :
            LET size ==
                    _calculate_system_size(
                        [roof_metrics EXCEPT !.usable_area = Float(larger)],
                        panel_specs)
            IN  /\ size >= system_size_kw
                /\ system_size_kw = 50000 => size = 50000

C17_Witness ==
    /\ pc = "annual_energy"
    /\ panel_type = "thin_film"
    /\ roof_metrics.usable_area.val = 534
    /\ system_size_kw = 50000
    /\ _calculate_system_size(ScenarioRoof(533), panel_specs) < 50000

\* C18: in every computed record total_cost = system_size_kw * 1000 *
\* installation_cost_per_watt, federal_incentive = 0.30 * total_cost,
\* net_cost = total_cost - federal_incentive, annual_savings =
\* annual_energy_kwh * electricity_rate, monthly_savings = annual_savings / 12
\* and cost_per_watt is the input cost (each to one cent of rounding).
C18_FinancialEquations ==
    FinancialsComputed =>
        LET cost == installation_cost_per_watt.val
            rate == electricity_rate.val
        IN  /\ result.total_cost = result.system_size_kw * cost
            /\ 100 * result.federal_incentive <= 30 * result.total_cost
            /\ 30 * result.total_cost < 100 * (result.federal_incentive + 1)
            /\ result.net_cost + result.federal_incentive = result.total_cost
            /\ 100 * result.annual_savings <= result.annual_energy_kwh * rate
            /\ result.annual_energy_kwh * rate
                  < 100 * (result.annual_savings + 1)
            /\ 12 * result.monthly_savings <= result.annual_savings
            /\ result.annual_savings < 12 * (result.monthly_savings + 1)
            /\ result.cost_per_watt = cost

C18_Witness ==
    /\ FinancialsComputed /\ ScenarioArgs(90)
    /\ result.total_cost = 3960000
    /\ result.federal_incentive = 1188000
    /\ result.net_cost = 2772000
    /\ result.annual_savings = 326125
    /\ result.monthly_savings = 27177

\* C19: lifetime_savings is the sum over n = 1..25 of annual_savings *
\* 1.03^(n-1), the compounding of the payback search, whether or not and
\* whenever payback is reached.
C19_LifetimeSavingsSum ==
    FinancialsComputed =>
        result.lifetime_savings = CumulativeSavings(result.annual_savings, 25)

C19_Witness ==
    /\ FinancialsComputed
    /\ result.payback_years = 500
    /\ result.annual_savings > 0
    /\ result.lifetime_savings < result.net_cost
    /\ result.lifetime_savings = CumulativeSavings(result.annual_savings, 25)

\* C20: roi_percent is (lifetime_savings - net_cost) / net_cost * 100 when
\* net_cost > 0 and 0 when net_cost <= 0, where no division takes place and
\* nothing is raised; with electricity_rate 0 it is non-positive.
C20_RoiPercent ==
    FinancialsComputed =>
        /\ result.net_cost > 0 =>
              result.roi_percent =
                  Ratio1000(result.lifetime_savings, result.net_cost) - 1000
        /\ result.net_cost <= 0 =>
              /\ result.roi_percent = 0
              /\ \A i \in DOMAIN log : log[i] # "Financial calculation failed"
        /\ electricity_rate.val = 0 => result.roi_percent <= 0

C20_Witness ==
    /\ FinancialsComputed
    /\ installation_cost_per_watt.val = 0
    /\ result.net_cost = 0
    /\ result.lifetime_savings > 0
    /\ result.roi_percent = 0

NonNegativeRateAndCost ==
    /\ FinancialsComputed
    /\ electricity_rate.val >= 0
    /\ installation_cost_per_watt.val >= 0

\* C21 as stated: for non-negative electricity_rate and installation cost,
\* every financial output of a computed record (total_cost,
\* federal_incentive, annual_savings, monthly_savings, payback_years,
\* lifetime_savings, roi_percent, cost_per_watt) is non-negative.
C21_FinancialOutputsNonNegative ==
    NonNegativeRateAndCost =>
        \A f \in {"total_cost", "federal_incentive", "annual_savings",
                  "monthly_savings", "payback_years", "lifetime_savings",
                  "roi_percent", "cost_per_watt"} : result[f] >= 0

\* C21 amended: for non-negative electricity_rate and installation cost,
\* total_cost, federal_incentive, net_cost, annual_savings, monthly_savings,
\* payback_years, lifetime_savings and cost_per_watt of a computed record are
\* non-negative; roi_percent is at least -100 and is negative exactly when
\* net_cost > 0 and lifetime_savings < net_cost.
C21_NonNegativeExceptRoi ==
    NonNegativeRateAndCost =>
        /\ \A f \in {"total_cost", "federal_incentive", "net_cost",
                      "annual_savings", "monthly_savings", "payback_years",
                      "lifetime_savings", "cost_per_watt"} : result[f] >= 0
        /\ result.roi_percent >= -1000
        /\ result.roi_percent < 0 <=>
              (result.net_cost > 0 /\ result.lifetime_savings < result.net_cost)

C21_Witness ==
    /\ NonNegativeRateAndCost
    /\ electricity_rate.val = 0
    /\ result.net_cost > 0
    /\ result.annual_savings = 0
    /\ result.payback_years = 990
    /\ result.roi_percent = -1000

EnvironmentalStageCompleted ==
    /\ pc \in {"return", "done"}
    /\ environmental_impact # NoValue

\* q is x / d rounded down to a whole unit, for d > 0.
IsQuotient(q, x, d) == d * q <= x /\ x < d * (q + 1)

\* C22: for any non-negative annual energy E, annual_co2_offset_lbs is
\* 0.85 * E, annual_co2_offset_tons is lbs / 2000, lifetime_co2_offset_tons
\* is annual tons * 25, equivalent_trees_planted is lbs / 48 and
\* equivalent_cars_removed is tons / 4.6; all are non-negative, the stage
\* never takes its failure handler, and a computed record carries the values.
C22_EnvironmentalMetrics ==
    EnvironmentalStageCompleted =>
        LET env == environmental_impact
            E == annual_energy_kwh
        IN  /\ E >= 0
            /\ IsQuotient(env.annual_co2_offset_lbs, 85 * E, 100)
            /\ IsQuotient(env.annual_co2_offset_tons,
                          env.annual_co2_offset_lbs, 20)
            /\ env.lifetime_co2_offset_tons = 25 * env.annual_co2_offset_tons
            /\ IsQuotient(env.equivalent_trees_planted,
                          env.annual_co2_offset_lbs, 48)
            /\ IsQuotient(env.equivalent_cars_removed,
                          env.annual_co2_offset_tons, 460)
            /\ \A f \in DOMAIN env : env[f] >= 0
            /\ \A i \in DOMAIN log :
                  log[i] # "Environmental impact calculation failed"
            /\ pc = "done" => \A f \in DOMAIN env : result[f] = env[f]

C22_Witness ==
    /\ pc = "done" /\ ScenarioArgs(90)
    /\ result.annual_energy_kwh = 1630625
    /\ result.annual_co2_offset_lbs = 1386031
    /\ result.annual_co2_offset_tons = 69301
    /\ result.lifetime_co2_offset_tons = 1732525
    /\ result.equivalent_trees_planted = 28875
    /\ result.equivalent_cars_removed = 150

\* The numeric outputs of a returned record: every top-level field but
\* system_specifications, and the panel power and efficiency inside it.
NumericOutputs(r) ==
    [f \in (DOMAIN r) \ {"system_specifications"} |-> r[f]]
    @@ [panel_power |-> r.system_specifications.panel_power,
        panel_efficiency |-> r.system_specifications.panel_efficiency]

\* Kept outcome k came from the arguments of the call now returning, but
\* for panel type pt.
SameCallButPanelType(k, pt) ==
    /\ k.roof_metrics = roof_metrics
    /\ k.solar_data = solar_data
    /\ k.electricity_rate = electricity_rate
    /\ k.installation_cost_per_watt = installation_cost_per_watt
    /\ k.panel_type = pt

\* C23: for a panel_type string that is not in the catalog (exotic),
\* calculate_potential raises nothing, and every numeric output equals the
\* output of a call with panel_type monocrystalline on the same other inputs.
C23_UnknownPanelTypeAsMonocrystalline ==
    panel_type = "exotic" =>
        /\ pc # "raised"
        /\ pc = "done" =>
              \A k \in kept :
                  SameCallButPanelType(k, "monocrystalline") =>
                      NumericOutputs(result) = NumericOutputs(k.result)

C23_Witness ==
    /\ pc = "done" /\ panel_type = "exotic"
    /\ roof_metrics = ScenarioRoof(90)
    /\ installation_cost_per_watt = Float(300)
    /\ result.panel_count = 33
    /\ log = <<>>
    /\ \E k \in kept :
          /\ SameCallButPanelType(k, "monocrystalline")
          /\ k.result.system_size_kw = 13200

\* C24: the system_specifications of every returned result describe the
\* specification used for the calculation: panel_type names the catalog
\* entry whose power and efficiency were used (monocrystalline after an
\* unknown-type fallback), and panel_power and panel_efficiency are that
\* entry's values.
C24_SpecificationsNameUsedPanel ==
    Returned =>
        LET ss == result.system_specifications
        IN  /\ ss.panel_type \in DOMAIN PANEL_SPECS
            /\ ss.panel_power = PANEL_SPECS[ss.panel_type].power_watts
            /\ ss.panel_efficiency = PANEL_SPECS[ss.panel_type].efficiency
            /\ result # _get_default_potential =>
                  /\ ss.panel_power = panel_specs.power_watts
                  /\ ss.panel_efficiency = panel_specs.efficiency

\* Kept outcome k came from a call with the arguments of the call now
\* returning.
SameCall(k) == SameCallButPanelType(k, panel_type)

C26_ReturnedRecordSharesNothing ==
    /\ losses = SYSTEM_LOSSES
    /\ pc = "done" =>
          \A k \in kept :
              SameCall(k) => NumericOutputs(k.result) = NumericOutputs(result)

\* C27: for annual_savings > 0 and net_cost > 0 (escalation 3 %),
\* payback_years <= 25 holds exactly when lifetime_savings >= net_cost, that
\* is exactly when roi_percent >= 0; a payback later than the 25-year
\* horizon comes with a negative ROI and vice versa.
C27_PaybackAgreesWithRoi ==
    (FinancialsComputed /\ result.annual_savings > 0 /\ result.net_cost > 0) =>
        /\ result.payback_years <= 250 <=>
              result.lifetime_savings >= result.net_cost
        /\ result.lifetime_savings >= result.net_cost <=>
              result.roi_percent >= 0
        /\ result.payback_years > 250 <=> result.roi_percent < 0

C27_Witness ==
    /\ FinancialsComputed
    /\ result.annual_savings > 0 /\ result.net_cost > 0
    /\ result.payback_years > 250 /\ result.payback_years < 500
    /\ result.lifetime_savings < result.net_cost
    /\ result.roi_percent < 0

\* C28: the reported panel_count never exceeds the number of panels that fit
\* on the roof: for every computed record panel_count <=
\* floor(usable_area / panel_area), also when the 1.0 kW minimum is applied
\* to a roof too small for the panels.
C28_PanelCountFitsRoof ==
    (Returned /\ result # _get_default_potential
       /\ SystemSizeException(roof_metrics) = "none") =>
        result.panel_count
            <= roof_metrics.usable_area.val \div panel_specs.area_m2

\* C29: the payback search always terminates: for every net_cost, every
\* annual_savings and every escalation rate (0 and negative rates included,
\* under which cumulative savings never reach net_cost), the loop ends after
\* at most 50 iterations, the year counter goes up by exactly one per
\* iteration, and the call returns the value of _calculate_payback_period.
C29_PaybackSearchTerminates ==
    /\ [](payback.iterations <= 50 /\ payback.year = payback.iterations)
    /\ [][payback'.iterations # payback.iterations =>
              /\ payback'.iterations = payback.iterations + 1
              /\ payback'.year = payback.year + 1]_vars
    /\ [](payback.at = "returned" =>
              payback.value =
                  _calculate_payback_period(payback.initial_cost,
                                            payback.annual_savings,
                                            payback.escalation_rate))
    /\ <>(payback.at = "returned")

C29_Witness ==
    /\ payback.at = "returned"
    /\ payback.escalation_rate < 0
    /\ payback.iterations = 50
    /\ payback.cumulative_savings < payback.initial_cost
    /\ payback.value = 500

\* C30: the canned fallback record satisfies the invariants of a computed
\* record when read with its own system_specifications: panel_count =
\* floor(system_size_kw * 1000 / panel_power), net_cost = total_cost -
\* federal_incentive, federal_incentive = 0.30 * total_cost, monthly_savings
\* = annual_savings / 12, capacity_factor in [0, 1], and payback_years is a
\* whole number of years not above 50.
C30_FallbackRecordInvariants ==
    (Returned /\ result = _get_default_potential) =>
        /\ result.panel_count =
              result.system_size_kw \div
                  result.system_specifications.panel_power
        /\ result.net_cost = result.total_cost - result.federal_incentive
        /\ 100 * result.federal_incentive = 30 * result.total_cost
        /\ 12 * result.monthly_savings = result.annual_savings
        /\ result.capacity_factor \in 0..10000
        /\ result.payback_years % 10 = 0
        /\ result.payback_years <= 500

====
